---- MODULE Spec2Model ----
(***************************************************************************)
(* Location provider registry: getLocations / getLocationsAndProviders     *)
(* (src/unnamed/part_000), modelled as a state machine over the rxjs       *)
(* operators the code composes: switchMap, combineLatest, startWith,       *)
(* catchError, filter, map, defaultIfEmpty, distinctUntilChanged.          *)
(***************************************************************************)
EXTENDS Integers, Sequences, FiniteSets, TLC

(***************************************************************************)
(* Bounds of the model.                                                    *)
(***************************************************************************)
\* provider lists emitted by the provider-list source plus asynchronous
\* provider emissions in one run
MaxEvents == 3

(***************************************************************************)
(* Values.  Every value is a record [k, a] so that TLC can compare any two *)
(* of them.  Locations are opaque identities: equality here is the ===     *)
(* of the code.                                                            *)
(***************************************************************************)
Locs == {"L1", "L2"}

\* const INITIAL = Symbol('INITIAL')
INITIAL == [k |-> "INITIAL", a |-> <<>>]
\* combineLatest's marker of a stream that has produced no value yet
NONE == [k |-> "NONE", a |-> <<>>]
\* distinctUntilChanged before its first value (hasKey = false)
NoKey == [k |-> "NOKEY", a |-> <<>>]
Null == [k |-> "null", a |-> <<>>]
Single(l) == [k |-> "loc", a |-> <<l>>]
Arr(s) == [k |-> "arr", a |-> s]

\* the values L | L[] | null a provider stream is made to emit
Values == {Null, Single("L1"), Arr(<<"L1">>), Arr(<<"L2">>), Arr(<<"L1", "L2">>)}

\* what a provider does when it is invoked and subscribed: it throws at the
\* call, or returns a stream that emits `sync` during subscribe and then
\* stays open, completes or errors (a stream that errors after a value does
\* so in a later step)
Ends == {"open", "complete", "error"}
SyncPrefixes == {<<>>, <<Arr(<<"L2">>)>>}
Behaviours == [throws : {FALSE}, sync : {<<>>}, end : Ends]
                \cup [throws : {FALSE}, sync : SyncPrefixes \ {<<>>}, end : Ends \ {"error"}]
                \cup {[throws |-> TRUE, sync |-> <<>>, end |-> "open"]}

ProviderLists == {<<>>, <<"A">>, <<"A", "B">>}

(***************************************************************************)
(* Sequence helpers.                                                       *)
(***************************************************************************)
RECURSIVE Without(_, _, _)
\* the subsequence of s (from index i on) of the elements other than x
Without(s, i, x) ==
    IF i > Len(s) THEN <<>>
    ELSE (IF s[i] # x THEN <<s[i]>> ELSE <<>>) \o Without(s, i + 1, x)

RECURSIVE Flatten(_, _)
\* one level of flattening: an array gives its elements, anything else is
\* kept as one element (a location, or the symbol if one is left)
Flatten(s, i) ==
    IF i > Len(s) THEN <<>>
    ELSE (IF s[i].k \in {"arr", "loc"} THEN s[i].a ELSE <<s[i].k>>) \o Flatten(s, i + 1)

\* a function on 1..n as a sequence
AsSeq(f, n) == SubSeq(f, 1, n)
Const(n, x) == AsSeq([i \in 1..n |-> x], n)

(***************************************************************************)
(* The operators of the pipe of getLocations.  `results` is what the       *)
(* switchMap emits: [null |-> TRUE] for the literal null of the empty      *)
(* list, or a combineLatest snapshot in vals.                              *)
(***************************************************************************)
NullResults == [null |-> TRUE, vals |-> <<>>]
Snapshot(vals) == [null |-> FALSE, vals |-> vals]

\* without the `results === null ||` of the filter
PassesFilterSnapshotsOnly(results) ==
    ~(\A i \in 1..Len(results.vals) : results.vals[i] = INITIAL)

\* some instead of every: a snapshot passes only when no member is INITIAL
PassesFilterAllSpoken(results) ==
    results.null \/ (\A i \in 1..Len(results.vals) : results.vals[i] # INITIAL)

\* filter(results => results === null || !results.every(r => r === INITIAL))
PassesFilter(results) ==
    results.null \/ ~(\A i \in 1..Len(results.vals) : results.vals[i] = INITIAL)

\* without the second map of the pipe
DropInitialKeepsAll(results) == results
\* map(results => results && results.filter(r => r !== INITIAL))
DropInitial(results) ==
    IF results.null THEN results
    ELSE Snapshot(Without(results.vals, 1, INITIAL))

\* flattenAndCompact of ./util: null stays null; nulls are dropped, single
\* locations and arrays are concatenated in order; an empty result is null
flattenAndCompact(results) ==
    IF results.null THEN Null
    ELSE LET compacted == Without(results.vals, 1, Null)
             merged == Flatten(compacted, 1)
         IN  IF Len(merged) = 0 THEN Null ELSE Arr(merged)

\* the default comparator (===): every array is a new object
LocationsEqualByReference(a, b) == a = Null /\ b = Null
\* the comparator of distinctUntilChanged
LocationsEqual(a, b) ==
    \/ a = Null /\ b = Null
    \/ /\ a # Null /\ b # Null /\ Len(a.a) = Len(b.a)
       /\ \A i \in 1..Len(a.a) : a.a[i] = b.a[i]

\* without distinctUntilChanged: every result reaches the subscriber
DistinctPassesAll(E, r, results, sid) ==
    [E EXCEPT !.last = r, !.nOut = @ + 1,
              !.emitted = Append(@, [v |-> r, snap |-> results.vals, s |-> sid])]

\* distinctUntilChanged(compare): r reaches the subscriber unless it equals
\* the value emitted last
Distinct(E, r, results, sid) ==
    IF E.last # NoKey /\ LocationsEqual(E.last, r) THEN E
    ELSE [E EXCEPT !.last = r, !.nOut = @ + 1,
                   !.emitted = Append(@, [v |-> r, snap |-> results.vals, s |-> sid])]

\* one value of the switchMap through filter, map, map, defaultIfEmpty and
\* distinctUntilChanged
Push(E, results, sid) ==
    IF E.status # "open" \/ ~PassesFilter(results) THEN E
    ELSE Distinct([E EXCEPT !.isEmpty = FALSE],
                  flattenAndCompact(DropInitial(results)), results, sid)

\* without the map of getLocation: the result of getLocations as it is
getLocationKeepsArray(results) == results
\* getLocation: getLocations(providers, params).pipe(map(results =>
\* results !== null && results.length === 1 ? results[0] : results))
getLocation(results) ==
    IF results # Null /\ Len(results.a) = 1 THEN Single(results.a[1]) ELSE results

(***************************************************************************)
(* A merge session: one provider list and the combineLatest over its       *)
(* wrapped provider streams.                                               *)
(*   inv[i]   "returned" | "threw" | "skipped": the call provider(params)   *)
(*   slots[i] the latest value of stream i, NONE before its first          *)
(*   st[i]    "pending" (not subscribed yet), "open", "completed",          *)
(*            "errored" (caught), "closed" (unsubscribed)                   *)
(***************************************************************************)
FirstThrow(beh) ==
    IF \E i \in 1..Len(beh) : beh[i].throws
    THEN CHOOSE i \in 1..Len(beh) :
            beh[i].throws /\ \A j \in 1..(i - 1) : ~beh[j].throws
    ELSE 0

\* providers.map(provider => from(provider(params))...): the calls are made
\* in list order and stop at the first one that throws
Invoke(list, beh) ==
    LET t == FirstThrow(beh)
    IN  AsSeq([i \in 1..Len(list) |->
                IF t = 0 \/ i < t THEN "returned" ELSE IF i = t THEN "threw" ELSE "skipped"],
              Len(list))

NewSession(list, beh) ==
    [list |-> list, inv |-> Invoke(list, beh),
     slots |-> Const(Len(list), NONE), st |-> Const(Len(list), "pending")]

\* an unsubscribed session: nothing of it can be observed any more
TearDown(s) ==
    [s EXCEPT !.slots = Const(Len(s.list), NONE), !.st = Const(Len(s.list), "closed")]

TearDownAll(E) ==
    [E EXCEPT !.sess = AsSeq([k \in 1..Len(E.sess) |-> TearDown(E.sess[k])], Len(E.sess))]

InnerDone(s) == \A i \in 1..Len(s.list) : s.st[i] \in {"completed", "errored"}

\* combineLatest: store the value; emit the snapshot once every stream has one
CombineNext(E, sid, i, v) ==
    LET E1 == [E EXCEPT !.sess[sid].slots[i] = v]
        vals == E1.sess[sid].slots
    IN  IF \A j \in 1..Len(vals) : vals[j] # NONE THEN Push(E1, Snapshot(vals), sid) ELSE E1

\* without defaultIfEmpty: completion emits nothing
OuterCompleteWithoutDefault(E) == [E EXCEPT !.status = "completed"]
\* defaultIfEmpty(null) at completion, then complete
OuterComplete(E) ==
    LET vals == IF E.sess = <<>> THEN <<>> ELSE E.sess[Len(E.sess)].slots
        E1 == IF E.isEmpty THEN Distinct(E, Null, Snapshot(vals), Len(E.sess)) ELSE E
    IN  [E1 EXCEPT !.status = "completed"]

\* switchMap completes when its source has and no inner stream is running
MaybeComplete(E) ==
    IF /\ E.status = "open" /\ E.src = "completed"
       /\ (E.sess = <<>> \/ InnerDone(E.sess[Len(E.sess)]))
    THEN OuterComplete(E) ELSE E

InnerComplete(E, sid, i) == MaybeComplete([E EXCEPT !.sess[sid].st[i] = "completed"])

\* without catchError: the error of the stream ends the merged stream
CatchErrorRethrows(E, sid, i) == [TearDownAll(E) EXCEPT !.status = "error"]
\* catchError(err => { console.error(err); return [null] }): the stream
\* emits null and completes
CatchError(E, sid, i) ==
    MaybeComplete([CombineNext(E, sid, i, Null) EXCEPT !.sess[sid].st[i] = "errored"])

RECURSIVE EmitAll(_, _, _, _, _)
EmitAll(E, sid, i, vs, k) ==
    IF k > Len(vs) THEN E ELSE EmitAll(CombineNext(E, sid, i, vs[k]), sid, i, vs, k + 1)

\* without startWith(INITIAL): the stream has no value until the provider emits
SubscribeOneWithoutStartWith(E, sid, i, b) ==
    LET E2 == EmitAll([E EXCEPT !.sess[sid].st[i] = "open"], sid, i, b.sync, 1)
    IN  CASE b.end = "error" -> CatchError(E2, sid, i)
          [] b.end = "complete" -> InnerComplete(E2, sid, i)
          [] OTHER -> E2

\* subscribing to from(provider(params)).pipe(startWith(INITIAL), catchError(..)):
\* INITIAL first, then whatever the stream does during subscribe
SubscribeOne(E, sid, i, b) ==
    LET E1 == CombineNext([E EXCEPT !.sess[sid].st[i] = "open"], sid, i, INITIAL)
        E2 == EmitAll(E1, sid, i, b.sync, 1)
    IN  CASE b.end = "error" -> CatchError(E2, sid, i)
          [] b.end = "complete" -> InnerComplete(E2, sid, i)
          [] OTHER -> E2

RECURSIVE SubscribeAll(_, _, _, _)
\* combineLatest subscribes to its streams in list order
SubscribeAll(E, sid, i, beh) ==
    IF i > Len(beh) THEN E
    ELSE SubscribeAll(SubscribeOne(E, sid, i, beh[i]), sid, i + 1, beh)

\* mergeMap instead of switchMap: the previous inner stream stays subscribed
KeepInner(E) == E
\* switchMap unsubscribes from the inner stream of the previous list
UnsubscribeInner(E) == TearDownAll(E)

\* the project function of the switchMap and the switch to its result
SwitchTo(E, list, beh) ==
    LET sid == Len(E.sess) + 1
        new == NewSession(list, beh)
    IN  IF list = <<>>
        THEN Push([UnsubscribeInner(E) EXCEPT !.sess = Append(@, new)], NullResults, sid)
        ELSE IF FirstThrow(beh) # 0
        THEN \* the throw leaves the project function: switchMap errors
             [TearDownAll([E EXCEPT !.sess = Append(@, new)]) EXCEPT !.status = "error"]
        ELSE SubscribeAll([UnsubscribeInner(E) EXCEPT !.sess = Append(@, new)], sid, 1, beh)

\* distinctUntilChanged inside the project function: a new key per list
SwitchMapNextNewKey(E, list, beh) == SwitchTo([E EXCEPT !.last = NoKey], list, beh)
\* a list of the source reaches the switchMap; filter, map, defaultIfEmpty and
\* distinctUntilChanged are after the switchMap and live as long as the
\* subscription, so the value emitted last is kept across lists
SwitchMapNext(E, list, beh) == SwitchTo(E, list, beh)

\* the provider-list source completes
SourceComplete(E) == MaybeComplete([E EXCEPT !.src = "completed"])

\* a catchError on the source: null in place of the error, then completion
SourceErrorCaught(E) ==
    [Distinct(TearDownAll(E), Null, NullResults, Len(E.sess))
        EXCEPT !.src = "errored", !.status = "completed"]
\* the provider-list source errors: nothing in the pipe catches it
SourceError(E) == [TearDownAll(E) EXCEPT !.src = "errored", !.status = "error"]

\* the engine as subscribed, before its source has emitted
NewEngine ==
    [src |-> "open", sess |-> <<>>, last |-> NoKey, nOut |-> 0, emitted |-> <<>>,
     isEmpty |-> TRUE, status |-> "open"]

\* the engine after its subscriber has unsubscribed: all of it is released
Unsubscribed == [NewEngine EXCEPT !.status = "unsubscribed"]

Begin(E) == [E EXCEPT !.emitted = <<>>]

(***************************************************************************)
(* The registry composer: getLocationsAndProviders.                        *)
(***************************************************************************)
Docs == {"d1", "d2"}
\* the entries that get registered: provider function and document selector
EntryA == [provider |-> "A", selector |-> {"d1", "d2"}]
EntryB == [provider |-> "B", selector |-> {"d2"}]
Entries == {EntryA, EntryB}

\* match(documentSelector, textDocument) of ../types/textDocument
match(selector, doc) == doc \in selector

\* modelToTextDocumentPositionParams of ../model: null without an active
\* document, else the document and position
NoParams == "null"
modelToTextDocumentPositionParams(m) == IF m = "nodoc" THEN NoParams ELSE m

RECURSIVE MatchingProviders(_, _, _)
\* entries.filter(e => match(e.registrationOptions.documentSelector,
\*                           params.textDocument)).map(e => e.provider)
MatchingProviders(es, i, doc) ==
    IF i > Len(es) THEN <<>>
    ELSE (IF match(es[i].selector, doc) THEN <<es[i].provider>> ELSE <<>>)
            \o MatchingProviders(es, i + 1, doc)

\* what a state exposes as `locations`: null, or the cold stream
\* getLocations(of(providers), params)
NoLocations == [null |-> TRUE, providers |-> <<>>, params |-> NoParams]
LocationsOf(providers, params) == [null |-> FALSE, providers |-> providers, params |-> params]

\* before combineLatest(this.entries, model) has emitted
NoState == [exposed |-> FALSE, locations |-> NoLocations, hasProviders |-> FALSE]

\* hasProviders taken from the entries instead of the matching providers
LocationsAndProvidersAnyEntry(es, m) ==
    LET params == modelToTextDocumentPositionParams(m)
    IN  IF params = NoParams
        THEN [exposed |-> TRUE, locations |-> NoLocations, hasProviders |-> FALSE]
        ELSE [exposed |-> TRUE,
              locations |-> LocationsOf(MatchingProviders(es, 1, params), params),
              hasProviders |-> Len(es) > 0]

\* the map of getLocationsAndProviders
LocationsAndProviders(es, m) ==
    LET params == modelToTextDocumentPositionParams(m)
    IN  IF params = NoParams
        THEN [exposed |-> TRUE, locations |-> NoLocations, hasProviders |-> FALSE]
        ELSE LET providers == MatchingProviders(es, 1, params)
             IN  [exposed |-> TRUE, locations |-> LocationsOf(providers, params),
                  hasProviders |-> Len(providers) > 0]

\* combineLatest(this.entries, model): nothing before the model has emitted
Recompute(es, m, old) == IF m = "unset" THEN old ELSE LocationsAndProviders(es, m)

\* registerProvider of ./registry appends the entry; its unsubscribe removes it
RECURSIVE RemoveEntry(_, _, _)
RemoveEntry(es, i, e) ==
    IF i > Len(es) THEN <<>>
    ELSE (IF es[i] = e THEN <<>> ELSE <<es[i]>>) \o RemoveEntry(es, i + 1, e)

InEntries(es, e) == \E i \in 1..Len(es) : es[i] = e

(***************************************************************************)
(* The config store: pkg/db/confdb/confdb.go.  The table                   *)
(* critical_and_site_config is a set of rows; every call runs its SQL      *)
(* statements in a transaction of its own, begun with BeginTx(ctx, nil):   *)
(* a statement sees the committed rows and the rows its own transaction    *)
(* has inserted.  Statements do not fail.                                  *)
(***************************************************************************)
\* calls started in one run
MaxCalls == 3

\* the callers that may be inside a call at the same time
Procs == {"p1", "p2"}

\* configType
typeCritical == "critical"
typeSite == "site"

\* a nil *int32
NilID == 0
\* a nil *Config
NoRow == [id |-> NilID, type |-> "none", contents |-> ""]
\* a nil error
NoErr == "nil"

\* the texts given as contents and as default configs; the default configs
\* are "" until SetDefaultConfigs is called
Contents == {"[]", "{"}
DefaultContents == {"{}"}
\* jsonx.Parse(contents, ...) reports no error
ValidJSON(contents) == contents \in {"[]", "{}"}

\* the rows a statement of a transaction with uncommitted rows tx sees
Visible(table, tx) == table \cup tx

\* ORDER BY id ASC: the oldest row of the type
getLatestOldest(rows, configType) ==
    LET versions == {r \in rows : r.type = configType}
    IN  IF versions = {} THEN NoRow
        ELSE CHOOSE r \in versions : \A q \in versions : q.id >= r.id

\* getLatest: SELECT ... WHERE type=%s ORDER BY id DESC LIMIT 1; nil when
\* there is no row
getLatest(rows, configType) ==
    LET versions == {r \in rows : r.type = configType}
    IN  IF versions = {} THEN NoRow
        ELSE CHOOSE r \in versions : \A q \in versions : q.id <= r.id

\* an insert whatever lastID is
ShouldInsertAlways(latest, lastID) == TRUE
\* the condition under which createIfUpToDate inserts
ShouldInsert(latest, lastID) ==
    LET creatorIsUpToDate == latest # NoRow /\ lastID # NilID /\ latest.id = lastID
    IN  latest = NoRow \/ creatorIsUpToDate

\* a caller outside any call
Idle ==
    [pc |-> "idle", op |-> "none", type |-> "none", supplied |-> NilID, lastID |-> NilID,
     contents |-> "", tx |-> {}, ret |-> NoRow, err |-> NoErr, txErr |-> NoErr,
     startLatest |-> NilID, saved |-> FALSE, outcome |-> "none"]

\* newTransaction succeeded and the deferred done is registered; the err that
\* done tests is the result variable of newTransaction, nil at its return
NewCall(op, configType, lastID, contents, table) ==
    [Idle EXCEPT !.pc = "addDefault", !.op = op, !.type = configType,
                 !.supplied = lastID, !.lastID = lastID, !.contents = contents,
                 !.startLatest = getLatest(table, configType).id]

\* a return with an error: the deferred done runs next
ReturnErr(c, e) == [c EXCEPT !.pc = "done", !.ret = NoRow, !.err = e]

\* after addDefault has returned newLastID without error: the GetLatest
\* functions go on to getLatest; the CreateIfUpToDate functions take over
\* newLastID if it is not nil and enter createIfUpToDate, which validates
\* the contents first
AfterAddDefault(c, newLastID) ==
    LET c1 == IF c.op = "create" /\ newLastID # NilID
              THEN [c EXCEPT !.lastID = newLastID] ELSE c
    IN  IF c.op = "create" /\ ~ValidJSON(c.contents)
        THEN ReturnErr(c1, "invalid settings JSON")
        ELSE [c1 EXCEPT !.pc = "latest"]

\* the closure returned by newTransaction: it tests the err of newTransaction
done(c) == IF c.txErr # NoErr THEN "rollback" ELSE "commit"

(***************************************************************************)
(* State.                                                                  *)
(*   eng      getLocations(providers, params) as subscribed                *)
(*   ev       the event handled last (history); `was` is the slot of the   *)
(*            provider stream before its event                             *)
(*   nEv      lists and asynchronous provider emissions so far             *)
(*   entries  the registry's entries, in registration order                *)
(*   model    what the model stream emitted last, "unset" before           *)
(*   state    the state getLocationsAndProviders emitted last              *)
(*   sub      the caller's subscription to a state's locations: "none",    *)
(*            "current" (of the state exposed now), "stale" (of a state    *)
(*            that has been replaced), or "direct" (to getLocations)       *)
(***************************************************************************)
VARIABLES eng, ev, nEv, entries, model, state, sub

\* the config store:
\*   critical_and_site_config  the committed rows of the table
\*   nextID                    the next value of the table's id sequence
\*   calls                     per caller, the call it is in (its position,
\*                             local variables and uncommitted rows)
\*   nCalls                    calls started so far
\*   setDefaultConfigsCalled, defaultCriticalConfig, defaultSiteConfig
\*                             the package variables of the same names
VARIABLES critical_and_site_config, nextID, calls, nCalls,
          setDefaultConfigsCalled, defaultCriticalConfig, defaultSiteConfig

confdb == <<critical_and_site_config, nextID, calls, nCalls,
            setDefaultConfigsCalled, defaultCriticalConfig, defaultSiteConfig>>
locations == <<eng, ev, nEv, entries, model, state, sub>>
vars == <<eng, ev, nEv, entries, model, state, sub, confdb>>
composer == <<entries, model, state, sub>>

\* the package at program start, with an empty table
InitConfdb ==
    /\ critical_and_site_config = {}
    /\ nextID = 1
    /\ calls = [p \in Procs |-> Idle]
    /\ nCalls = 0
    /\ setDefaultConfigsCalled = FALSE
    /\ defaultCriticalConfig = ""
    /\ defaultSiteConfig = ""

Event(type, s, i, v, list, beh) ==
    [type |-> type, s |-> s, i |-> i, v |-> v, list |-> list, beh |-> beh,
     was |-> IF s \in 1..Len(eng.sess) /\ i > 0 THEN eng.sess[s].slots[i] ELSE NONE]

Init ==
    /\ eng = NewEngine
    /\ ev = Event("subscribe", 0, 0, NONE, <<>>, <<>>)
    /\ nEv = 0
    /\ entries = <<>>
    /\ model = "unset"
    /\ state = NoState
    /\ sub = "direct"
    /\ InitConfdb

\* the provider-list source emits a list
SrcNext ==
    \E list \in ProviderLists : \E beh \in [1..Len(list) -> Behaviours] :
        /\ sub = "direct"
        /\ eng.src = "open" /\ eng.status = "open"
        /\ nEv < MaxEvents
        /\ eng' = SwitchMapNext(Begin(eng), list, beh)
        /\ ev' = Event("list", Len(eng.sess) + 1, 0, NONE, list, AsSeq(beh, Len(list)))
        /\ nEv' = nEv + 1
        /\ UNCHANGED <<composer, confdb>>

SrcComplete ==
    /\ sub = "direct"
    /\ eng.src = "open" /\ eng.status = "open"
    /\ eng' = SourceComplete(Begin(eng))
    /\ ev' = Event("srcComplete", 0, 0, NONE, <<>>, <<>>)
    /\ UNCHANGED <<nEv, composer, confdb>>

SrcError ==
    /\ sub = "direct"
    /\ eng.src = "open" /\ eng.status = "open"
    /\ eng' = SourceError(Begin(eng))
    /\ ev' = Event("srcError", 0, 0, NONE, <<>>, <<>>)
    /\ UNCHANGED <<nEv, composer, confdb>>

\* the stream of provider i of session sid emits v after subscribe
ProviderEmit ==
    \E sid \in 1..Len(eng.sess) : \E i \in 1..Len(eng.sess[sid].list) : \E v \in Values :
        /\ eng.sess[sid].st[i] = "open"
        /\ nEv < MaxEvents
        /\ eng' = CombineNext(Begin(eng), sid, i, v)
        /\ ev' = Event("emit", sid, i, v, <<>>, <<>>)
        /\ nEv' = nEv + 1
        /\ UNCHANGED <<composer, confdb>>

\* a provider invocation whose subscription was torn down produces a value:
\* the closed subscriber drops it
ProviderEmitLate ==
    \E sid \in 1..Len(eng.sess) : \E i \in 1..Len(eng.sess[sid].list) :
        /\ eng.sess[sid].st[i] = "closed"
        /\ eng.sess[sid].inv[i] = "returned"
        /\ eng' = Begin(eng)
        /\ ev' = Event("late", sid, i, NONE, <<>>, <<>>)
        /\ UNCHANGED <<nEv, composer, confdb>>

ProviderError ==
    \E sid \in 1..Len(eng.sess) : \E i \in 1..Len(eng.sess[sid].list) :
        /\ eng.sess[sid].st[i] = "open"
        /\ eng' = CatchError(Begin(eng), sid, i)
        /\ ev' = Event("error", sid, i, NONE, <<>>, <<>>)
        /\ UNCHANGED <<nEv, composer, confdb>>

ProviderComplete ==
    \E sid \in 1..Len(eng.sess) : \E i \in 1..Len(eng.sess[sid].list) :
        /\ eng.sess[sid].st[i] = "open"
        /\ eng' = InnerComplete(Begin(eng), sid, i)
        /\ ev' = Event("complete", sid, i, NONE, <<>>, <<>>)
        /\ UNCHANGED <<nEv, composer, confdb>>

Next ==
    \/ SrcNext
    \/ SrcComplete
    \/ SrcError
    \/ ProviderEmit
    \/ ProviderEmitLate
    \/ ProviderError
    \/ ProviderComplete

Spec == Init /\ [][Next]_vars

(***************************************************************************)
(* The composer with a caller that subscribes to the locations of the      *)
(* states it is given.                                                     *)
(***************************************************************************)
InitComposer ==
    /\ eng = NewEngine
    /\ ev = Event("construct", 0, 0, NONE, <<>>, <<>>)
    /\ nEv = 0
    /\ entries = <<>>
    /\ model = "unset"
    /\ state = NoState
    /\ sub = "none"
    /\ InitConfdb

\* a state emitted while the caller holds the locations of the one before
Superseded(new) == IF sub = "current" /\ new.exposed THEN "stale" ELSE sub

\* this.entries emits: the map runs again; it subscribes to nothing and
\* unsubscribes from nothing
EntriesNext(es, type) ==
    /\ entries' = es
    /\ state' = Recompute(es, model, state)
    /\ sub' = Superseded(state')
    /\ eng' = Begin(eng)
    /\ ev' = Event(type, 0, 0, NONE, <<>>, <<>>)
    /\ UNCHANGED <<nEv, model, confdb>>

RegisterProvider ==
    \E e \in Entries :
        /\ sub # "direct"
        /\ ~InEntries(entries, e)
        /\ EntriesNext(Append(entries, e), "register")

UnregisterProvider ==
    \E e \in Entries :
        /\ sub # "direct"
        /\ InEntries(entries, e)
        /\ EntriesNext(RemoveEntry(entries, 1, e), "unregister")

\* the model stream emits the active document, or that there is none
ModelNext ==
    \E m \in Docs \cup {"nodoc"} :
        /\ sub # "direct"
        /\ model' = m
        /\ state' = Recompute(entries, m, state)
        /\ sub' = Superseded(state')
        /\ eng' = Begin(eng)
        /\ ev' = Event("model", 0, 0, NONE, <<>>, <<>>)
        /\ UNCHANGED <<nEv, entries, confdb>>

\* the caller subscribes to state.locations = getLocations(of(providers), params)
CallerSubscribe ==
    \E beh \in [1..Len(state.locations.providers) -> Behaviours] :
        /\ sub = "none"
        /\ state.exposed /\ ~state.locations.null
        /\ nEv < MaxEvents
        /\ eng' = SourceComplete(SwitchMapNext(NewEngine, state.locations.providers, beh))
        /\ sub' = "current"
        /\ ev' = Event("list", 1, 0, NONE, state.locations.providers,
                       AsSeq(beh, Len(state.locations.providers)))
        /\ nEv' = nEv + 1
        /\ UNCHANGED <<entries, model, state, confdb>>

CallerUnsubscribe ==
    /\ sub \in {"current", "stale"}
    /\ eng' = Unsubscribed
    /\ sub' = "none"
    /\ ev' = Event("unsubscribe", 0, 0, NONE, <<>>, <<>>)
    /\ UNCHANGED <<nEv, entries, model, state, confdb>>

NextComposer ==
    \/ RegisterProvider
    \/ UnregisterProvider
    \/ ModelNext
    \/ CallerSubscribe
    \/ CallerUnsubscribe
    \/ ProviderEmit
    \/ ProviderEmitLate
    \/ ProviderError
    \/ ProviderComplete

SpecComposer == InitComposer /\ [][NextComposer]_vars

(***************************************************************************)
(* The config store with two callers.  A call is entered by one of the    *)
(* four exported functions and then proceeds one SQL statement at a time;  *)
(* the deferred done() is its last step.                                   *)
(***************************************************************************)
DefaultOf(configType) ==
    IF configType = typeSite THEN defaultSiteConfig ELSE defaultCriticalConfig

\* the lastID a caller may supply: nil, the id of the latest committed config
\* of the type (if there is one), or an id that no row ever has
LastIDs(configType) ==
    {NilID, -1} \cup ({getLatest(critical_and_site_config, configType).id} \ {NilID})

\* (the callers are interchangeable: p2 makes its first call after p1 has
\* started one)
Enter(p, op, configType, lastID, contents) ==
    /\ calls[p].pc \in {"idle", "returned"}
    /\ p = "p2" => calls["p1"].pc # "idle"
    /\ nCalls < MaxCalls
    /\ calls' = [calls EXCEPT ![p] =
                    NewCall(op, configType, lastID, contents, critical_and_site_config)]
    /\ nCalls' = nCalls + 1
    /\ UNCHANGED <<critical_and_site_config, nextID, setDefaultConfigsCalled,
                   defaultCriticalConfig, defaultSiteConfig, locations>>

Step(p, c) ==
    /\ calls' = [calls EXCEPT ![p] = c]
    /\ UNCHANGED <<critical_and_site_config, nextID, nCalls, setDefaultConfigsCalled,
                   defaultCriticalConfig, defaultSiteConfig, locations>>

\* the row of INSERT ... RETURNING id of createIfUpToDate
NewRow(p, contents) == [id |-> nextID, type |-> calls[p].type, contents |-> contents]

\* the INSERT: the row takes the next id of the sequence
InsertRow(p, c) ==
    /\ calls' = [calls EXCEPT ![p] = c]
    /\ nextID' = nextID + 1
    /\ UNCHANGED <<critical_and_site_config, nCalls, setDefaultConfigsCalled,
                   defaultCriticalConfig, defaultSiteConfig, locations>>

\* SetDefaultConfigs at program startup, before the first call (a program
\* that never calls it runs with the empty default configs)
SetDefaultConfigs ==
    \E critical, site \in DefaultContents :
        /\ ~setDefaultConfigsCalled
        /\ nCalls = 0
        /\ setDefaultConfigsCalled' = TRUE
        /\ defaultCriticalConfig' = critical
        /\ defaultSiteConfig' = site
        /\ UNCHANGED <<critical_and_site_config, nextID, calls, nCalls, locations>>

SiteCreateIfUpToDate ==
    \E p \in Procs : \E lastID \in LastIDs(typeSite) : \E contents \in Contents :
        Enter(p, "create", typeSite, lastID, contents)

CriticalCreateIfUpToDate ==
    \E p \in Procs : \E lastID \in LastIDs(typeCritical) : \E contents \in Contents :
        Enter(p, "create", typeCritical, lastID, contents)

SiteGetLatest == \E p \in Procs : Enter(p, "get", typeSite, NilID, "")

CriticalGetLatest == \E p \in Procs : Enter(p, "get", typeCritical, NilID, "")

\* addDefault: getLatest; an existing config ends addDefault, otherwise
\* createIfUpToDate is entered with the default config and validates it
AddDefaultGetLatest ==
    \E p \in Procs :
        LET c == calls[p]
            latest == getLatest(Visible(critical_and_site_config, c.tx), c.type)
        IN  /\ c.pc = "addDefault"
            /\ Step(p, IF latest # NoRow THEN AfterAddDefault(c, NilID)
                        ELSE IF ~ValidJSON(DefaultOf(c.type))
                        THEN ReturnErr(c, "invalid settings JSON")
                        ELSE [c EXCEPT !.pc = "defaultLatest"])

\* createIfUpToDate(ctx, tx, configType, nil, default): getLatest and the
\* decision to insert; without an insert it returns the row it found
AddDefaultCreateGetLatest ==
    \E p \in Procs :
        LET c == calls[p]
            latest == getLatest(Visible(critical_and_site_config, c.tx), c.type)
        IN  /\ c.pc = "defaultLatest"
            /\ Step(p, IF ShouldInsert(latest, NilID)
                        THEN [c EXCEPT !.pc = "defaultInsert"]
                        ELSE AfterAddDefault(c, latest.id))

\* createIfUpToDate(..., nil, default): the INSERT; addDefault returns its id
AddDefaultInsert ==
    \E p \in Procs :
        /\ calls[p].pc = "defaultInsert"
        /\ LET new == NewRow(p, DefaultOf(calls[p].type))
           IN  InsertRow(p, AfterAddDefault([calls[p] EXCEPT !.tx = @ \cup {new}], new.id))

\* the getLatest of SiteGetLatest / CriticalGetLatest, or the getLatest of
\* createIfUpToDate(..., lastID, contents) and its decision to insert
GetLatestStatement ==
    \E p \in Procs :
        LET c == calls[p]
            latest == getLatest(Visible(critical_and_site_config, c.tx), c.type)
        IN  /\ c.pc = "latest"
            /\ Step(p, IF c.op = "create" /\ ShouldInsert(latest, c.lastID)
                        THEN [c EXCEPT !.pc = "insert"]
                        ELSE [c EXCEPT !.pc = "done", !.ret = latest])

\* createIfUpToDate(..., lastID, contents): the INSERT
InsertStatement ==
    \E p \in Procs :
        /\ calls[p].pc = "insert"
        /\ LET new == NewRow(p, calls[p].contents)
           IN  InsertRow(p, [calls[p] EXCEPT !.pc = "done", !.tx = @ \cup {new},
                                              !.ret = new, !.saved = TRUE])

\* the deferred done(): Rollback or Commit, then the call has returned
Done ==
    \E p \in Procs :
        LET c == calls[p]
        IN  /\ c.pc = "done"
            /\ IF done(c) = "commit"
               THEN /\ critical_and_site_config' = critical_and_site_config \cup c.tx
                    /\ calls' = [calls EXCEPT ![p] =
                                    [c EXCEPT !.pc = "returned", !.lastID = NilID,
                                              !.outcome = "committed"]]
               ELSE /\ critical_and_site_config' = critical_and_site_config
                    /\ calls' = [calls EXCEPT ![p] =
                                    [c EXCEPT !.pc = "returned", !.lastID = NilID,
                                              !.tx = {}, !.outcome = "rolledback"]]
            /\ UNCHANGED <<nextID, nCalls, setDefaultConfigsCalled,
                           defaultCriticalConfig, defaultSiteConfig, locations>>

NextConfdb ==
    \/ SetDefaultConfigs
    \/ SiteCreateIfUpToDate
    \/ CriticalCreateIfUpToDate
    \/ SiteGetLatest
    \/ CriticalGetLatest
    \/ AddDefaultGetLatest
    \/ AddDefaultCreateGetLatest
    \/ AddDefaultInsert
    \/ GetLatestStatement
    \/ InsertStatement
    \/ Done

SpecConfdb == Init /\ [][NextConfdb]_vars

(***************************************************************************)
(* Properties.                                                             *)
(***************************************************************************)
Cur == Len(eng.sess)
Emitted == {eng.emitted[k] : k \in 1..Len(eng.emitted)}

\* C1: if one provider throws when it is called with the query and another
\* provider emits [L2], getLocations emits [L2] and does not end with an error.
C1_SyncThrowIsolated ==
    (/\ ev.type = "list" /\ Len(ev.list) = 2
     /\ \E i, j \in 1..2 :
            /\ i # j /\ ev.beh[i].throws
            /\ ~ev.beh[j].throws /\ ev.beh[j].sync = <<Arr(<<"L2">>)>>)
    => (eng.status # "error" /\ eng.last = Arr(<<"L2">>))

\* C2: when a provider's stream raises an error, the slot of that provider
\* becomes null and stays null for the rest of the session, the merged stream
\* does not error, and the slots of the other providers are unchanged and keep
\* being updated by their later emissions.
C2_Step ==
    /\ \A sid \in 1..Len(eng'.sess) : \A i \in 1..Len(eng'.sess[sid].list) :
        \* the slot of a stream that has raised is null
        /\ eng'.sess[sid].st[i] = "errored" => eng'.sess[sid].slots[i] = Null
        \* and once it has raised, every later aggregate is computed with that
        \* null (the step in which it raises included)
        /\ (/\ sid <= Len(eng.sess) /\ eng.sess[sid].st[i] \in {"open", "errored"}
            /\ eng'.sess[sid].st[i] = "errored") =>
              \A k \in 1..Len(eng'.emitted) :
                  eng'.emitted[k].s = sid => eng'.emitted[k].snap[i] = Null
        \* the step in which it raises changes no other slot
        /\ (/\ sid <= Len(eng.sess)
            /\ eng.sess[sid].st[i] = "open" /\ eng'.sess[sid].st[i] = "errored") =>
              \A j \in 1..Len(eng.sess[sid].list) :
                  j # i => /\ eng'.sess[sid].slots[j] = eng.sess[sid].slots[j]
                           /\ eng'.sess[sid].st[j] = eng.sess[sid].st[j]
    \* a provider event never ends the merged stream with an error
    /\ (eng.status # "error" /\ eng'.status = "error") => ev'.type \in {"list", "srcError"}
    /\ ev'.type = "error" => eng'.status \in {"open", "completed"}
    \* an emission of a provider reaches its slot, whatever the others did
    /\ ev'.type = "emit" => eng'.sess[ev'.s].slots[ev'.i] = ev'.v

C2_ErrorIsolated == [][C2_Step]_vars

\* after the error of one provider (its slot null), the other provider emitted
\* and the merged stream emitted that value
C2_Witness ==
    /\ ev.type = "emit" /\ ev.v = Arr(<<"L1", "L2">>) /\ eng.status = "open"
    /\ Len(eng.sess[ev.s].list) = 2
    /\ \E i \in 1..2 : i # ev.i /\ eng.sess[ev.s].st[i] = "errored"
                        /\ eng.sess[ev.s].slots[i] = Null
    /\ eng.last = Arr(<<"L1", "L2">>) /\ Len(eng.emitted) = 1

RECURSIVE RefConcat(_, _)
\* the locations of a snapshot in provider order: nothing for a provider at
\* the Sentinel or at null, the location of a single one, the elements of an array
RefConcat(snap, i) ==
    IF i > Len(snap) THEN <<>>
    ELSE (CASE snap[i] = INITIAL -> <<>>
            [] snap[i] = Null -> <<>>
            [] OTHER -> snap[i].a) \o RefConcat(snap, i + 1)

Reference(snap) == IF RefConcat(snap, 1) = <<>> THEN Null ELSE Arr(RefConcat(snap, 1))

\* C3: every value emitted equals the reference result of the snapshot it was
\* computed from; it is null or a non-empty array of locations, so it holds
\* no Sentinel and no null element.
C3_EmitsReference ==
    \A e \in Emitted :
        /\ e.v = Reference(e.snap)
        /\ e.v = Null \/ (/\ e.v.k = "arr" /\ Len(e.v.a) > 0
                           /\ \A k \in 1..Len(e.v.a) : e.v.a[k] \in Locs)

\* A = [L1, L2] and B = [L1] give [L1, L2, L1]
C3_Witness ==
    \E e \in Emitted :
        /\ e.snap = <<Arr(<<"L1", "L2">>), Arr(<<"L1">>)>>
        /\ e.v = Arr(<<"L1", "L2", "L1">>)

\* provider i of the running session goes from the Sentinel to a genuine null
\* (it emits null or its stream raises) and no other slot changes
SentinelToNull(i) ==
    /\ Cur > 0 /\ Len(eng'.sess) = Cur
    /\ i \in 1..Len(eng.sess[Cur].list)
    /\ eng.sess[Cur].slots[i] = INITIAL /\ eng'.sess[Cur].slots[i] = Null
    /\ \A j \in 1..Len(eng.sess[Cur].list) :
          j # i => eng'.sess[Cur].slots[j] = eng.sess[Cur].slots[j]

OthersSilent(s, i) == \A j \in 1..Len(s.list) : j # i => s.slots[j] \in {INITIAL, NONE}

\* C4 as stated: the merged stream never emits in response to a transition in
\* which one provider goes from the Sentinel to null while no other changes.
C4_NeverEmitsOnSentinelToNull ==
    [][\A i \in 1..2 : SentinelToNull(i) => eng'.emitted = <<>>]_vars

\* C4 as amended: no emission for that transition when another provider of the
\* session has already left the Sentinel; when all the others are still at the
\* Sentinel (or there is none), null is emitted unless null was emitted last.
C4_NoEmissionOnceAnotherSpoke ==
    [][\A i \in 1..2 : (SentinelToNull(i) /\ eng.status = "open") =>
          IF ~OthersSilent(eng.sess[Cur], i) \/ eng.last = Null
          THEN eng'.emitted = <<>>
          ELSE /\ Len(eng'.emitted) = 1 /\ eng'.emitted[1].v = Null]_vars

\* provider 2 went from the Sentinel to null while provider 1 holds [L2], which
\* was emitted before: nothing is emitted
C4_Witness ==
    /\ ev.type \in {"emit", "error"} /\ ev.was = INITIAL /\ ev.s = Cur /\ ev.i = 2
    /\ eng.sess[Cur].slots = <<Arr(<<"L2">>), Null>>
    /\ eng.last = Arr(<<"L2">>) /\ eng.emitted = <<>> /\ eng.status = "open"

\* C5: when the provider list is empty, getLocations emits null exactly once
\* and invokes no provider.
C5_EmptyListEmitsNullOnce ==
    (Cur = 1 /\ eng.sess[1].list = <<>>) =>
        /\ eng.nOut = 1 /\ eng.last = Null
        /\ eng.sess[1].inv = <<>>
        /\ ev.type = "list" => eng.emitted = <<[v |-> Null, snap |-> <<>>, s |-> 1]>>
        /\ ev.type # "list" => eng.emitted = <<>>

\* the empty list, then the completion of the source: still one null
C5_Witness ==
    /\ Cur = 1 /\ eng.sess[1].list = <<>> /\ sub = "direct"
    /\ eng.status = "completed" /\ eng.nOut = 1 /\ eng.last = Null

\* a provider of a session of several providers has just emitted a real result
\* while no other provider has emitted anything
C6_Case ==
    /\ ev.type = "emit" /\ ev.v # Null /\ eng.status = "open"
    /\ Len(eng.sess[ev.s].list) > 1
    /\ OthersSilent(eng.sess[ev.s], ev.i)

\* C6 as stated: that result is emitted by the merged stream at once.
C6_EmittedAtOnce ==
    C6_Case => /\ Len(eng.emitted) = 1
               /\ eng.emitted[1].v = Arr(ev.v.a)

\* C6 as amended: it is emitted at once, without waiting for any other
\* provider, unless it equals under the dedup law the value emitted last.
C6_EmittedAtOnceUnlessEqual ==
    [][C6_Case' =>
          IF eng.last # NoKey /\ eng.last # Null /\ eng.last.a = ev'.v.a
          THEN eng'.emitted = <<>> /\ eng'.last = eng.last
          ELSE /\ Len(eng'.emitted) = 1 /\ eng'.emitted[1].v = Arr(ev'.v.a)
               /\ eng'.last = Arr(ev'.v.a)]_vars

C6_Witness ==
    /\ C6_Case /\ ev.was = INITIAL
    /\ eng.sess[ev.s].slots = <<INITIAL, Arr(<<"L1", "L2">>)>>
    /\ Len(eng.emitted) = 1 /\ eng.emitted[1].v = Arr(<<"L1", "L2">>)

\* C7 as stated: a session emits only after every provider has emitted.
C7_WaitsForEveryProvider ==
    \A e \in Emitted : \A i \in 1..Len(e.snap) : e.snap[i] # INITIAL

\* C7 as amended: a provider that never emits holds nothing back.  While no
\* provider of the running session has emitted or raised, the session emits
\* nothing; as soon as one has, the value emitted last is the aggregate of
\* those that have.
C7_SilentProviderHoldsNothingBack ==
    (Cur > 0 /\ eng.status = "open" /\ eng.sess[Cur].list # <<>>) =>
        LET slots == eng.sess[Cur].slots
        IN  IF \A i \in 1..Len(slots) : slots[i] = INITIAL
            THEN \A e \in Emitted : e.s # Cur
            ELSE /\ eng.last = Reference(slots)
                 /\ \A e \in Emitted : e.s = Cur /\ \E i \in 1..Len(e.snap) : e.snap[i] # INITIAL

\* the first provider has emitted, the second never has: emitted at once
C7_Witness ==
    /\ Cur = 1 /\ eng.status = "open" /\ ev.type = "emit"
    /\ eng.sess[1].slots = <<Single("L1"), INITIAL>>
    /\ eng.emitted = <<[v |-> Arr(<<"L1">>), snap |-> <<Single("L1"), INITIAL>>, s |-> 1]>>

\* C9: when the provider-list source emits a new list, every subscription of
\* the previous list is torn down, every value emitted afterwards is computed
\* from the streams of the new list only, and a late emission of a superseded
\* provider invocation changes nothing.
C9_SupersededTornDown ==
    /\ \A sid \in 1..(Cur - 1) : \A i \in 1..Len(eng.sess[sid].list) :
          eng.sess[sid].st[i] = "closed" /\ eng.sess[sid].slots[i] = NONE
    /\ \A e \in Emitted :
          /\ e.s = Cur
          /\ Cur > 0 => Len(e.snap) = Len(eng.sess[Cur].list)
          /\ (Cur > 0 /\ ev.type # "list") => e.snap = eng.sess[Cur].slots
    /\ ev.type = "late" => eng.emitted = <<>>
    /\ ev.type = "emit" => ev.s = Cur

\* a provider of the first list emits late, after the second list's provider
\* has had its value emitted
C9_Witness ==
    /\ Cur = 2 /\ ev.type = "late" /\ ev.s = 1
    /\ eng.sess[1].list = <<"A", "B">> /\ eng.sess[2].list = <<"A">>
    /\ eng.sess[2].slots = <<Arr(<<"L2">>)>> /\ eng.last = Arr(<<"L2">>)
    /\ eng.status = "open"

\* C8: once a newer state has been produced by getLocationsAndProviders, no
\* emission of the older state's merge reaches the caller, and the older
\* merge's provider subscriptions are cancelled by the composer.
C8_OlderSessionCancelled ==
    sub = "stale" =>
        /\ eng.emitted = <<>>
        /\ \A sid \in 1..Cur : \A i \in 1..Len(eng.sess[sid].list) :
              eng.sess[sid].st[i] # "open"

\* the k-th (in registration order) of the entries whose selector matches doc
MatchingIdx(es, doc) == {i \in 1..Len(es) : doc \in es[i].selector}
Kth(S, k) == CHOOSE i \in S : Cardinality({j \in S : j < i}) = k - 1
RefMatching(es, doc) ==
    AsSeq([k \in 1..Cardinality(MatchingIdx(es, doc)) |->
              es[Kth(MatchingIdx(es, doc), k)].provider],
          Cardinality(MatchingIdx(es, doc)))

\* C10: every state exposed is, without an active document, {locations: null,
\* hasProviders: false}, with no provider invoked for it; otherwise locations
\* merges exactly the providers of the registered entries whose selector
\* matches the active document, in registration order, and hasProviders says
\* whether there is any.  Producing a state invokes no provider.
C10_State ==
    state.exposed =>
        IF model = "nodoc"
        THEN /\ state.locations = NoLocations /\ ~state.hasProviders
             /\ sub # "current"
        ELSE /\ state.locations = LocationsOf(RefMatching(entries, model), model)
             /\ state.hasProviders = (RefMatching(entries, model) # <<>>)
             /\ sub = "current" =>
                   /\ eng.sess[1].list = RefMatching(entries, model)
                   /\ Cur = 1

C10_StateMatchesRegistry ==
    /\ [](C10_State /\ (state.exposed = (model # "unset")))
    /\ [][(entries' # entries \/ ev'.type = "model") =>
            /\ eng'.sess = eng.sess /\ eng'.status = eng.status
            /\ state'.exposed = (model' # "unset")]_vars

\* B was registered before A and both match d2: the caller's merge runs B, A
C10_Witness ==
    /\ state.exposed /\ model = "d2" /\ entries = <<EntryB, EntryA>>
    /\ state.hasProviders /\ state.locations.providers = <<"B", "A">>
    /\ sub = "current" /\ eng.sess[1].list = <<"B", "A">>

\* C11: every value getLocations emits is null or an array, never a bare
\* location, and getLocation turns it into the element of a one-element
\* array and leaves null and the arrays of two or more elements as they are.
C11_GetLocationUnwraps ==
    \A e \in Emitted :
        /\ e.v = Null \/ (e.v.k = "arr" /\ Len(e.v.a) >= 1)
        /\ getLocation(e.v) =
              CASE e.v = Null -> Null
                [] e.v # Null /\ Len(e.v.a) = 1 -> [k |-> "loc", a |-> <<e.v.a[1]>>]
                [] OTHER -> e.v

\* one provider returning the single location L1: getLocations gives [L1],
\* getLocation gives L1
C11_Witness ==
    \E e \in Emitted :
        /\ e.snap = <<Single("L1")>> /\ e.v = Arr(<<"L1">>)
        /\ getLocation(e.v) = Single("L1") /\ getLocation(e.v) # e.v

\* C12: an error of the provider-list source is not caught: the merged stream
\* ends with that error, nothing (no null) is emitted in its place, and
\* nothing is emitted afterwards.
C12_SourceErrorPropagates ==
    /\ [](eng.src = "errored" => (eng.status = "error" /\ eng.emitted = <<>>))
    /\ [][ev'.type = "srcError" =>
            /\ eng'.src = "errored" /\ eng'.status = "error"
            /\ eng'.nOut = eng.nOut /\ eng'.last = eng.last]_vars

\* the source errors before anything was emitted: still nothing is emitted
C12_Witness ==
    /\ ev.type = "srcError" /\ eng.status = "error" /\ eng.src = "errored"
    /\ Cur = 1 /\ eng.sess[1].list = <<"A">> /\ eng.nOut = 0 /\ eng.last = NoKey

\* the dedup law: both null, or arrays of equal length whose elements are
\* pairwise identical at the same index
DedupEqual(a, b) ==
    IF a = Null \/ b = Null THEN a = Null /\ b = Null
    ELSE /\ Len(a.a) = Len(b.a)
         /\ \A k \in 1..Len(a.a) : a.a[k] = b.a[k]

\* the value emitted before the k-th emission of a step
Preceding(k) == IF k = 1 THEN eng.last ELSE eng'.emitted[k - 1].v

\* C15: no two consecutive values emitted by getLocations are equal under the
\* dedup law; the result computed when a provider of the running session emits
\* or raises is suppressed when it equals the value emitted last and is
\* emitted when it differs from it.
C15_Step ==
    /\ \A k \in 1..Len(eng'.emitted) :
          Preceding(k) = NoKey \/ ~DedupEqual(Preceding(k), eng'.emitted[k].v)
    /\ eng'.emitted # <<>> => eng'.last = eng'.emitted[Len(eng'.emitted)].v
    /\ eng'.emitted = <<>> => eng'.last = eng.last
    /\ (ev'.type \in {"emit", "error"} /\ eng.status = "open") =>
          LET candidate == Reference(eng'.sess[ev'.s].slots)
          IN  IF eng.last # NoKey /\ DedupEqual(eng.last, candidate)
              THEN eng'.emitted = <<>>
              ELSE /\ Len(eng'.emitted) = 1 /\ eng'.emitted[1].v = candidate

C15_NoConsecutiveEqual == [][C15_Step]_vars

\* one provider gave three results in turn, the last being [L1] after [L2]:
\* one of the three equalled its predecessor and was suppressed, [L1] differs
\* from [L2] and was emitted
C15_Witness ==
    /\ Cur = 1 /\ Len(eng.sess[1].list) = 1 /\ nEv = 3
    /\ ev.type = "emit" /\ ev.was = Arr(<<"L2">>) /\ ev.v = Arr(<<"L1">>)
    /\ eng.nOut = 2 /\ eng.last = Arr(<<"L1">>) /\ Len(eng.emitted) = 1

\* C16: within one merge session every provider of the list is invoked exactly
\* once, at session start, whatever it emits and whether or not it errors.
\* (inv[i] is the outcome of the one call provider(params) the session makes
\* for provider i; "skipped" is a provider for which the call was never made.)
C16_EveryProviderInvokedOnce ==
    \A sid \in 1..Cur : \A i \in 1..Len(eng.sess[sid].list) :
        /\ eng.sess[sid].inv[i] \in {"returned", "threw"}
        /\ Len(eng.sess[sid].inv) = Len(eng.sess[sid].list)

\* the provider-list source has completed and every provider stream of the
\* last session has completed or raised
AllDone ==
    /\ eng.src = "completed"
    /\ Cur > 0 => InnerDone(eng.sess[Cur])

\* C19: once the provider-list source has completed and every provider stream
\* of the last session has completed or raised, the stream of getLocations has
\* completed and has emitted at least one value; when nothing ever passed the
\* filter, that value is a single null emitted at completion.
C19_CompletesWithAValue ==
    /\ [](AllDone => eng.status = "completed")
    /\ [](eng.status = "completed" =>
            /\ AllDone /\ eng.nOut >= 1
            /\ eng.isEmpty => (eng.nOut = 1 /\ eng.last = Null))
    /\ [][(eng.status = "open" /\ eng'.status = "completed" /\ eng'.isEmpty) =>
            /\ Len(eng'.emitted) = 1 /\ eng'.emitted[1].v = Null]_vars

\* both providers completed without emitting and the source has completed:
\* completion emitted the one null
C19_Witness ==
    /\ eng.status = "completed" /\ eng.isEmpty /\ sub = "direct"
    /\ Cur = 1 /\ eng.sess[1].list = <<"A", "B">>
    /\ eng.sess[1].st = <<"completed", "completed">>
    /\ eng.sess[1].slots = <<INITIAL, INITIAL>>
    /\ eng.nOut = 1 /\ eng.last = Null /\ Len(eng.emitted) = 1

\* nothing of the running session has passed the filter yet
SessionSilent ==
    /\ Cur > 0 /\ eng.sess[Cur].list # <<>>
    /\ \A i \in 1..Len(eng.sess[Cur].list) : eng.sess[Cur].slots[i] = INITIAL

\* C20: the dedup comparison spans merge sessions: the first result of the
\* session of a new list (the null of an empty list, or the first aggregate
\* that passes the filter) is compared with the value emitted last for an
\* earlier list; it is suppressed when equal to it and emitted otherwise.
C20_Step ==
    /\ (ev'.type = "list" /\ ev'.list = <<>> /\ eng.last # NoKey) =>
          IF eng.last = Null THEN eng'.emitted = <<>> /\ eng'.nOut = eng.nOut
          ELSE /\ Len(eng'.emitted) = 1 /\ eng'.emitted[1].v = Null
    /\ (/\ ev'.type \in {"emit", "error"} /\ eng.status = "open"
        /\ Cur >= 2 /\ SessionSilent /\ eng.last # NoKey) =>
          IF DedupEqual(eng.last, Reference(eng'.sess[Cur].slots))
          THEN eng'.emitted = <<>> /\ eng'.nOut = eng.nOut
          ELSE /\ Len(eng'.emitted) = 1
               /\ eng'.emitted[1].v = Reference(eng'.sess[Cur].slots)
    /\ (ev'.type = "list" /\ eng.last # NoKey /\ eng'.emitted # <<>>) =>
          ~DedupEqual(eng.last, eng'.emitted[1].v)

C20_DedupSpansSessions == [][C20_Step]_vars

\* the list [] emitted null; then the list [A], and A emits null: nothing more
C20_Witness ==
    /\ Cur = 2 /\ eng.sess[1].list = <<>> /\ eng.sess[2].list = <<"A">>
    /\ ev.type = "emit" /\ ev.s = 2 /\ ev.v = Null /\ ev.was = INITIAL
    /\ eng.emitted = <<>> /\ eng.nOut = 1 /\ eng.last = Null /\ eng.status = "open"

\* C18: when one of the four functions returns an error, its transaction has
\* been rolled back: the table holds no row inserted during the call, the
\* default row of addDefault included; the transaction is committed only when
\* the call returns without error.
C18_ErrorRollsBack ==
    \A p \in Procs :
        calls[p].pc = "returned" =>
            IF calls[p].err # NoErr
            THEN critical_and_site_config \cap calls[p].tx = {}
            ELSE calls[p].outcome = "committed" /\ calls[p].tx \subseteq critical_and_site_config

\* two calls of the CreateIfUpToDate function of one type that were given the
\* same lastID, the id of the latest config when each of them started, with
\* valid contents, and have both returned
ConcurrentCreates(p, q) ==
    /\ p # q /\ calls[p].pc = "returned" /\ calls[q].pc = "returned"
    /\ calls[p].op = "create" /\ calls[q].op = "create"
    /\ calls[p].type = calls[q].type
    /\ calls[p].err = NoErr /\ calls[q].err = NoErr
    /\ calls[p].supplied # NilID /\ calls[p].supplied = calls[q].supplied
    /\ calls[p].startLatest = calls[p].supplied
    /\ calls[q].startLatest = calls[q].supplied

\* C17: of two concurrent calls of SiteCreateIfUpToDate (or of
\* CriticalCreateIfUpToDate) that supply the same lastID, equal to the latest
\* id when both start, at most one saves its contents; the other inserts
\* nothing and returns the config the first one saved.
C17_AtMostOneSaves ==
    \A p, q \in Procs :
        ConcurrentCreates(p, q) =>
            /\ ~(calls[p].saved /\ calls[q].saved)
            /\ (calls[p].saved /\ ~calls[q].saved) => calls[q].ret = calls[p].ret

\* caller p is at its deferred done() and no config of the type of its call
\* has been committed since the call started
Undisturbed(p) ==
    /\ calls[p].pc = "done" /\ calls'[p].pc = "returned"
    /\ \A r \in critical_and_site_config :
          r.type = calls[p].type => r.id <= calls[p].startLatest

\* the rows of a type with the highest id among rows
Highest(rows, configType) ==
    {r \in rows : r.type = configType /\ \A q \in rows : q.type = configType => q.id <= r.id}

====
